---------------------------- MODULE Spec2Model ----------------------------
(***************************************************************************)
(* patchelfdd: non-extending patches of an ELF file's interpreter path     *)
(* (.interp) and DT_RUNPATH (.dynstr + .dynamic).                          *)
(*                                                                         *)
(* The file is a sequence of bytes (0..255); file offset o is element o+1. *)
(* 64-bit machine words are kept as sign + magnitude in four base-65536    *)
(* limbs (least significant first), so that the i32/u32/i64/u64 boundaries *)
(* are exact.                                                              *)
(***************************************************************************)
EXTENDS Integers, Sequences, FiniteSets, TLC

VARIABLES
    disk,       \* the bytes of opts.bin on the file system
    orig,       \* the bytes of opts.bin when run was called (history)
    ehdr,       \* [class, endianness] of the ELF header
    shdr,       \* section headers: [interp, dynstr, dynamic], each [sh_offset, sh_size]
    opts,       \* Opts: [set_runpath, set_interpreter], each None or a byte string
    elf_raw,    \* run's in-memory copy of the file (fs::read)
    patches,    \* Patcher.patches: sequence of [offset, data]
    pc,         \* position inside run
    result,     \* "none" while running, "Ok" or the error run returned
    writes,     \* number of fs::write calls made on opts.bin
    ser         \* serializer harness: [class, endianness, val, op, out]

vars == <<disk, orig, ehdr, shdr, opts, elf_raw, patches, pc, result, writes, ser>>

\* Option<T>
None == [some |-> FALSE]
Some(v) == [some |-> TRUE, val |-> v]

-----------------------------------------------------------------------------
(* Bounds of the model *)

\* largest number of entries of a .dynamic table
MaxDynamic == 2
\* largest sh_size of .interp
MaxInterpSize == 1
\* serializer inputs lie within MaxDelta of 0, 2^31, 2^32, 2^63 and 2^64
MaxDelta == 2

-----------------------------------------------------------------------------
(* Byte strings *)

ITM_NAME == <<95, 73, 84, 77, 95, 100, 101, 114, 101, 103, 105, 115, 116, 101,
              114, 84, 77, 67, 108, 111, 110, 101, 84, 97, 98, 108, 101>>
GMON_NAME == <<95, 95, 103, 109, 111, 110, 95, 115, 116, 97, 114, 116, 95, 95>>
MCOUNT == <<109, 99, 111, 117, 110, 116>>
LIBITM == <<108, 105, 98, 105, 116, 109, 46, 115, 111>>

\* str::contains
Contains(hay, needle) ==
    \E i \in 0..(Len(hay) - Len(needle)) :
        \A j \in 1..Len(needle) : hay[i + j] = needle[j]

Prefix(s, n) == [i \in 1..n |-> s[i]]

Reverse(s) == [i \in 1..Len(s) |-> s[Len(s) + 1 - i]]

-----------------------------------------------------------------------------
(* 64-bit words *)

Limb == 256 * 256
Half == Limb \div 2

Class == {"ELF32", "ELF64"}
Endian == {"Little", "Big"}

\* a non-negative number below 2^31 as a word
W(n) == [neg |-> FALSE, mag |-> <<n % Limb, n \div Limb, 0, 0>>]

WNeg(w) == [neg |-> (~w.neg) /\ w.mag # <<0, 0, 0, 0>>, mag |-> w.mag]

InI64(w) ==
    IF w.neg THEN w.mag[4] < Half \/ w.mag = <<0, 0, 0, Half>>
             ELSE w.mag[4] < Half

InU64(w) == ~w.neg

\* i32::try_from(val).is_ok()
FitsI32(w) ==
    /\ w.mag[3] = 0
    /\ w.mag[4] = 0
    /\ IF w.neg THEN w.mag[2] < Half \/ (w.mag[2] = Half /\ w.mag[1] = 0)
                ELSE w.mag[2] < Half

\* u32::try_from(val).is_ok()
FitsU32(w) == ~w.neg /\ w.mag[3] = 0 /\ w.mag[4] = 0

\* the two's complement bit pattern of w in n limbs
RECURSIVE Incr(_, _)
Incr(limbs, i) ==
    IF i > Len(limbs) THEN limbs
    ELSE IF limbs[i] = Limb - 1 THEN Incr([limbs EXCEPT ![i] = 0], i + 1)
    ELSE [limbs EXCEPT ![i] = limbs[i] + 1]

Pattern(w, n) ==
    IF w.neg THEN Incr([i \in 1..n |-> Limb - 1 - w.mag[i]], 1)
             ELSE [i \in 1..n |-> w.mag[i]]

\* {i32,u32,i64,u64}::to_le_bytes / to_be_bytes on the n-limb pattern
to_le_bytes(w, n) ==
    LET p == Pattern(w, n)
    IN  [i \in 1..(2 * n) |->
            IF i % 2 = 1 THEN p[(i + 1) \div 2] % 256 ELSE p[i \div 2] \div 256]

to_be_bytes(w, n) == Reverse(to_le_bytes(w, n))

\* SerializeIntoArchValue::to_le_arch / to_be_arch: ArchLong of 4 or 8 bytes
to_le_arch(w, class) == to_le_bytes(w, IF class = "ELF32" THEN 2 ELSE 4)
\* a to_be_arch that calls to_le_bytes
to_be_arch_unswapped(w, class) == to_le_bytes(w, IF class = "ELF32" THEN 2 ELSE 4)
to_be_arch(w, class) == to_be_bytes(w, IF class = "ELF32" THEN 2 ELSE 4)

\* Result<T, E>
Ok(v) == [ok |-> TRUE, val |-> v]
Err(e) == [ok |-> FALSE, err |-> e]

IntConversion == Err("IntConversion")

\* a bytes_from_signed_long that narrows with `as i32` instead of i32::try_from
bytes_from_signed_long_truncating(class, endianness, val) ==
    IF endianness = "Little" THEN Ok(to_le_arch(val, class))
    ELSE Ok(to_be_arch(val, class))
\* ArchSerializer::bytes_from_signed_long
bytes_from_signed_long(class, endianness, val) ==
    IF class = "ELF32" /\ ~FitsI32(val) THEN IntConversion
    ELSE IF endianness = "Little" THEN Ok(to_le_arch(val, class))
    ELSE Ok(to_be_arch(val, class))

\* ArchSerializer::bytes_from_unsigned_long
bytes_from_unsigned_long(class, endianness, val) ==
    IF class = "ELF32" /\ ~FitsU32(val) THEN IntConversion
    ELSE IF endianness = "Little" THEN Ok(to_le_arch(val, class))
    ELSE Ok(to_be_arch(val, class))

\* ArchLong::len
WordWidth(class) == IF class = "ELF32" THEN 4 ELSE 8

(* Reading a word back, as the ELF reader does (from_le_bytes / from_be_bytes
   of the class's width, sign-extended for a signed field). *)
Limbs(bytes, endianness) ==
    LET le == IF endianness = "Little" THEN bytes ELSE Reverse(bytes)
    IN  [i \in 1..4 |->
            IF 2 * i <= Len(le) THEN le[2 * i - 1] + 256 * le[2 * i] ELSE 0]

decode_unsigned(bytes, endianness) ==
    [neg |-> FALSE, mag |-> Limbs(bytes, endianness)]

decode_signed(bytes, endianness) ==
    LET l == Limbs(bytes, endianness)
        n == Len(bytes) \div 2
    IN  IF l[n] >= Half
        THEN [neg |-> TRUE,
              mag |-> [i \in 1..4 |->
                         IF i <= n
                         THEN Incr([j \in 1..n |-> Limb - 1 - l[j]], 1)[i]
                         ELSE 0]]
        ELSE [neg |-> FALSE, mag |-> l]

-----------------------------------------------------------------------------
(* The ELF file: sections, string table, dynamic table *)

DT_NULL == 0
DT_NEEDED == DT_NULL + 1
DT_RUNPATH == 29

ParseElf == Err("ParseElf")

\* bytes [off, off + size) of a buffer
Slice(data, off, size) == [i \in 1..size |-> data[off + i]]

\* ElfBytes::section_data: the section's bytes, or an error past the end of the file
section_data(raw, sh) ==
    IF sh.sh_offset + sh.sh_size > Len(raw) THEN ParseElf
    ELSE Ok(Slice(raw, sh.sh_offset, sh.sh_size))

\* StringTable::get: the bytes from idx up to the next NUL
StrtabGet(data, idx) ==
    IF idx >= Len(data) \/ ~(\E e \in (idx + 1)..Len(data) : data[e] = 0)
    THEN ParseElf
    ELSE LET end == CHOOSE e \in (idx + 1)..Len(data) :
                        /\ data[e] = 0
                        /\ \A f \in (idx + 1)..(e - 1) : data[f] # 0
         IN  Ok(Slice(data, idx, end - 1 - idx))

\* the scan `dynstr_index = 1; while dynstr_index < sh_size { ...; dynstr_index += entry.len() + 1 }`:
\* the indices visited, or ParseElf when an entry cannot be read
RECURSIVE DynstrScan(_, _, _)
DynstrScan(data, idx, acc) ==
    IF idx >= Len(data) THEN Ok(acc)
    ELSE LET entry == StrtabGet(data, idx)
         IN  IF ~entry.ok THEN ParseElf
             ELSE DynstrScan(data, idx + Len(entry.val) + 1,
                             Append(acc, [index |-> idx, entry |-> entry.val]))

\* size_of::<Elf32_Dyn>() / size_of::<Elf64_Dyn>()
DynSize(class) == 2 * WordWidth(class)

\* DynamicTable::len
DynamicLen(data, class) == Len(data) \div DynSize(class)

\* DynamicTable::get(i), i counted from 0: BadOffset past the end of the table
BadOffset == Err("BadOffset")

DynamicGet(data, eh, i) ==
    IF i >= DynamicLen(data, eh.class) THEN BadOffset
    ELSE LET w == WordWidth(eh.class)
             at == i * DynSize(eh.class)
         IN  Ok([d_tag |-> decode_signed(Slice(data, at, w), eh.endianness),
                 d_val |-> decode_unsigned(Slice(data, at + w, w), eh.endianness)])

\* the entries DynamicTable::iter yields, in order
DynamicEntries(data, eh) ==
    [i \in 1..DynamicLen(data, eh.class) |-> DynamicGet(data, eh, i - 1).val]

\* Iterator::position: the first index (from 0) at which the predicate, given
\* as the sequence of its values on the entries, holds, or None
Position(holds) ==
    IF \E i \in 1..Len(holds) : holds[i]
    THEN Some((CHOOSE i \in 1..Len(holds) :
                   holds[i] /\ \A j \in 1..(i - 1) : ~holds[j]) - 1)
    ELSE None

-----------------------------------------------------------------------------
(* patch.rs: DynstrPatchCandidate *)

\* DynstrPatchCandidate::from_string
from_string(data) ==
    IF data = GMON_NAME THEN Some("GmonStart")
    ELSE IF data = ITM_NAME THEN Some("ITMDeregisterTMCloneTable")
    ELSE None

\* DynstrPatchCandidate::rank ("low has higher priority")
rank(candidate) ==
    IF candidate = "GmonStart" THEN 10 ELSE 1

\* DynstrPatchCandidate::check_gprof: Ok(false) at the first entry containing "mcount"
RECURSIVE check_gprof_from(_, _)
check_gprof_from(dynstr_data, dynstr_index) ==
    IF dynstr_index >= Len(dynstr_data) THEN Ok(TRUE)
    ELSE LET entry == StrtabGet(dynstr_data, dynstr_index)
         IN  IF ~entry.ok THEN ParseElf
             ELSE IF Contains(entry.val, MCOUNT) THEN Ok(FALSE)
             ELSE check_gprof_from(dynstr_data, dynstr_index + Len(entry.val) + 1)

check_gprof(dynstr_data) == check_gprof_from(dynstr_data, 1)

\* DynstrPatchCandidate::check_valid
check_valid(candidate, dynstr_data) ==
    IF candidate = "GmonStart" THEN check_gprof(dynstr_data) ELSE Ok(TRUE)

-----------------------------------------------------------------------------
(* patch.rs: Patcher *)

\* Patcher::add_patch followed by the copy of `bytes` into the front of the patch
Patch(offset, size, bytes) ==
    [offset |-> offset,
     data |-> [i \in 1..size |-> IF i <= Len(bytes) THEN bytes[i] ELSE 0]]

\* one patch written into the buffer, which is resized when the patch ends past it
ApplyPatch(binary_data, patch) ==
    LET patch_end == patch.offset + Len(patch.data)
        size == IF patch_end > Len(binary_data) THEN patch_end ELSE Len(binary_data)
    IN  [i \in 1..size |->
            IF i > patch.offset /\ i <= patch_end THEN patch.data[i - patch.offset]
            ELSE IF i <= Len(binary_data) THEN binary_data[i]
            ELSE 0]

\* Patcher::apply_patches_to: the patches in the order of self.patches
RECURSIVE apply_patches_to(_, _)
apply_patches_to(ps, binary_data) ==
    IF ps = <<>> THEN binary_data
    ELSE apply_patches_to(Tail(ps), ApplyPatch(binary_data, Head(ps)))

\* the writes of apply_patches_to, as the offsets of its copy_from_slice calls in
\* the order the loop makes them
RECURSIVE apply_patches_writes(_, _)
apply_patches_writes(ps, acc) ==
    IF ps = <<>> THEN acc
    ELSE apply_patches_writes(Tail(ps), Append(acc, Head(ps).offset))

\* Patcher::set_interpreter_path: the patch, or CannotFitInterpreterPath
set_interpreter_path(sh, new_interpreter_path) ==
    IF sh.interp.sh_size < Len(new_interpreter_path)
    THEN Err("CannotFitInterpreterPath")
    ELSE Ok(Patch(sh.interp.sh_offset, Len(new_interpreter_path) + 1,
                  new_interpreter_path))

\* the loop of set_runpath_dynstr: the (candidate, dynstr_index) pairs pushed
RECURSIVE dynstr_candidates(_, _, _, _)
dynstr_candidates(dynstr_data, dynstr_index, new_runpath, acc) ==
    IF dynstr_index >= Len(dynstr_data) THEN Ok(acc)
    ELSE LET entry == StrtabGet(dynstr_data, dynstr_index)
         IN  IF ~entry.ok THEN ParseElf
             ELSE LET candidate == from_string(entry.val)
                      next == dynstr_index + Len(entry.val) + 1
                  IN  IF candidate.some /\ Len(entry.val) >= Len(new_runpath)
                      THEN LET valid == check_valid(candidate.val, dynstr_data)
                           IN  IF ~valid.ok THEN valid
                               ELSE dynstr_candidates(
                                        dynstr_data, next, new_runpath,
                                        IF valid.val
                                        THEN Append(acc, [candidate |-> candidate.val,
                                                          index |-> dynstr_index])
                                        ELSE acc)
                      ELSE dynstr_candidates(dynstr_data, next, new_runpath, acc)

\* Iterator::max_by_key(|a| a.0.rank()): the last element with the largest key
max_by_key_rank(cands) ==
    cands[CHOOSE i \in 1..Len(cands) :
              /\ \A j \in 1..Len(cands) : rank(cands[j].candidate) <= rank(cands[i].candidate)
              /\ \A j \in (i + 1)..Len(cands) :
                     rank(cands[j].candidate) < rank(cands[i].candidate)]

\* the choice of the entry to overwrite
best_dynstr_overwrite(cands) == max_by_key_rank(cands)

\* Patcher::set_runpath_dynstr: Ok([offset, patch]) or the error
set_runpath_dynstr(raw, sh, new_runpath) ==
    LET dynstr_data == section_data(raw, sh.dynstr)
    IN  IF ~dynstr_data.ok THEN dynstr_data
        ELSE LET cands == dynstr_candidates(dynstr_data.val, 1, new_runpath, <<>>)
             IN  IF ~cands.ok THEN cands
                 ELSE IF cands.val = <<>> THEN Err("NoDynstrReplacementCandidate")
                 ELSE LET best == best_dynstr_overwrite(cands.val)
                      IN  Ok([offset |-> best.index,
                              patch |-> Patch(sh.dynstr.sh_offset + best.index,
                                              Len(new_runpath) + 1, new_runpath)])

\* a slot search that takes the first DT_NULL entry even when it is the last entry
dyn_entry_position_first_null(dynamic_data, eh, dynstr_entry_offset) ==
    LET entries == DynamicEntries(dynamic_data, eh)
        first_null ==
            Position([i \in 1..Len(entries) |-> entries[i].d_tag = W(DT_NULL)])
    IN  IF ~first_null.some THEN Err("NoApplicableDynamicEntry")
        ELSE Ok(first_null.val)

\* the slot search of set_runpath_dynamic: Ok(index into the table) or the error
dyn_entry_position(dynamic_data, eh, dynstr_entry_offset) ==
    LET entries == DynamicEntries(dynamic_data, eh)
        first_null ==
            Position([i \in 1..Len(entries) |-> entries[i].d_tag = W(DT_NULL)])
        referrer ==
            Position([i \in 1..Len(entries) |->
                         entries[i].d_val = W(dynstr_entry_offset)])
    IN  IF ~first_null.some THEN Err("NoApplicableDynamicEntry")
        ELSE IF DynamicGet(dynamic_data, eh, first_null.val + 1).ok
        THEN Ok(first_null.val)
        ELSE IF ~referrer.some THEN Err("NoApplicableDynamicEntry")
        ELSE Ok(referrer.val)

\* Patcher::set_runpath_dynamic: Ok(patch) or the error
set_runpath_dynamic(raw, sh, eh, dynstr_entry_offset) ==
    LET dynamic_data == section_data(raw, sh.dynamic)
    IN  IF ~dynamic_data.ok THEN dynamic_data
        ELSE LET pos == dyn_entry_position(dynamic_data.val, eh, dynstr_entry_offset)
                 dyn_d_tag_data ==
                     bytes_from_signed_long(eh.class, eh.endianness, W(DT_RUNPATH))
                 dyn_d_un_data ==
                     bytes_from_unsigned_long(eh.class, eh.endianness,
                                              W(dynstr_entry_offset))
             IN  IF ~pos.ok THEN pos
                 ELSE IF ~dyn_d_tag_data.ok \/ ~dyn_d_un_data.ok THEN Err("Serializing")
                 ELSE Ok(Patch(sh.dynamic.sh_offset + pos.val * DynSize(eh.class),
                               Len(dyn_d_tag_data.val) + Len(dyn_d_un_data.val),
                               dyn_d_tag_data.val \o dyn_d_un_data.val))

\* Patcher::set_runpath: [res, patches]: the result and self.patches afterwards
set_runpath(ps, raw, sh, eh, new_runpath) ==
    LET a == set_runpath_dynstr(raw, sh, new_runpath)
    IN  IF ~a.ok THEN [res |-> a, patches |-> ps]
        ELSE LET b == set_runpath_dynamic(raw, sh, eh, a.val.offset)
                 ps1 == Append(ps, a.val.patch)
             IN  IF ~b.ok THEN [res |-> b, patches |-> ps1]
                 ELSE [res |-> Ok(TRUE), patches |-> Append(ps1, b.val)]

\* a has_dt_runpath that stops at the first DT_NULL entry
has_dt_runpath_until_null(raw, sh, eh) ==
    LET dynamic_data == section_data(raw, sh.dynamic)
        IsNullAt(i) == DynamicGet(dynamic_data.val, eh, i).val.d_tag = W(DT_NULL)
    IN  IF ~dynamic_data.ok THEN dynamic_data
        ELSE Ok(\E i \in 0..(DynamicLen(dynamic_data.val, eh.class) - 1) :
                    /\ DynamicGet(dynamic_data.val, eh, i).val.d_tag = W(DT_RUNPATH)
                    /\ \A j \in 0..(i - 1) : ~IsNullAt(j))

\* has_dt_runpath
has_dt_runpath(raw, sh, eh) ==
    LET dynamic_data == section_data(raw, sh.dynamic)
    IN  IF ~dynamic_data.ok THEN dynamic_data
        ELSE Ok(\E i \in 0..(DynamicLen(dynamic_data.val, eh.class) - 1) :
                    DynamicGet(dynamic_data.val, eh, i).val.d_tag = W(DT_RUNPATH))

-----------------------------------------------------------------------------
(* Input files *)

\* "libitm.so.1"
LIBITM_SO_1 == LIBITM \o <<46, 49>>
\* "/tmp/elf64dd/usr/lib64/x86_64"
RUNPATH_TEXT == <<47, 116, 109, 112, 47, 101, 108, 102, 54, 52, 100, 100, 47, 117,
                  115, 114, 47, 108, 105, 98, 54, 52, 47, 120, 56, 54, 95, 54, 52>>
\* TEST_INTERPPATH, "/lib-sus.so"
INTERP_TEXT == <<47, 108, 105, 98, 45, 115, 117, 115, 46, 115, 111>>
\* the interpreter path of the input, "ld-linux.so"
OLD_INTERP_TEXT == <<108, 100, 45, 108, 105, 110, 117, 120, 46, 115, 111>>
\* the first bytes of every ELF file, 0x7f 'E' 'L' 'F'
ElfMagic == <<127, 69, 76, 70>>

EhdrPool == [class : Class, endianness : Endian]

\* the recognized names a .dynstr holds, in their order, then the marker strings
CandidateLists ==
    {<<>>, <<ITM_NAME>>, <<GMON_NAME>>, <<ITM_NAME, GMON_NAME>>, <<GMON_NAME, ITM_NAME>>}
MarkerLists == {<<>>, <<LIBITM_SO_1>>, <<MCOUNT>>, <<LIBITM_SO_1, MCOUNT>>}
\* the entries of a .dynstr: a string table without a recognized name holds both markers
DynstrLists ==
    {c \o m : c \in CandidateLists \ {<<>>}, m \in MarkerLists}
        \cup {<<LIBITM_SO_1, MCOUNT>>}

RECURSIVE StrtabBytes(_)
StrtabBytes(entries) ==
    IF entries = <<>> THEN <<>>
    ELSE Head(entries) \o <<0>> \o StrtabBytes(Tail(entries))

DynstrBytes(entries) == <<0>> \o StrtabBytes(entries)

\* the string tables of the inputs; the last one is cut before its final NUL
DynstrImages ==
    {DynstrBytes(l) : l \in DynstrLists}
        \cup {<<0>> \o GMON_NAME \o <<0>> \o MCOUNT}

\* dynamic entries of the inputs: the terminator, an existing DT_RUNPATH, and an
\* entry that refers to the string at .dynstr offset 1
DynPool ==
    {[d_tag |-> DT_NULL, d_val |-> 0],
     [d_tag |-> DT_RUNPATH, d_val |-> 1],
     [d_tag |-> DT_NEEDED, d_val |-> 1]}

DynTables == UNION {[1..n -> DynPool] : n \in 1..MaxDynamic}

WordBytes(n, eh) ==
    IF eh.endianness = "Little" THEN to_le_arch(W(n), eh.class)
    ELSE to_be_arch(W(n), eh.class)

RECURSIVE DynamicBytes(_, _)
DynamicBytes(tbl, eh) ==
    IF tbl = <<>> THEN <<>>
    ELSE WordBytes(Head(tbl).d_tag, eh) \o WordBytes(Head(tbl).d_val, eh)
             \o DynamicBytes(Tail(tbl), eh)

InterpBytes(size) == Prefix(OLD_INTERP_TEXT, size - 1) \o <<0>>

\* the order of the three sections in the file
Layouts ==
    {<<"interp", "dynamic", "dynstr">>,
     <<"dynstr", "dynamic", "interp">>}

\* requested run paths: as long as __gmon_start__, as long as
\* _ITM_deregisterTMCloneTable, and one byte longer
RunpathOpts ==
    {None} \cup {Some(Prefix(RUNPATH_TEXT, n)) :
                    n \in {Len(GMON_NAME), Len(ITM_NAME), Len(ITM_NAME) + 1}}

\* requested interpreter paths for a .interp of `size` bytes: one byte shorter
\* than the section, as long as the section, and one byte longer
InterpOpts(size) ==
    {None} \cup {Some(Prefix(INTERP_TEXT, n)) : n \in (size - 1)..(size + 1)}

\* the file and its section headers for a layout and the sections' bytes
MakeFile(layout, secs) ==
    LET off1 == Len(ElfMagic)
        off2 == off1 + Len(secs[layout[1]])
        off3 == off2 + Len(secs[layout[2]])
        offs == <<off1, off2, off3>>
        At(name) == CHOOSE i \in 1..3 : layout[i] = name
    IN  [bytes |-> ElfMagic \o secs[layout[1]] \o secs[layout[2]] \o secs[layout[3]],
         shdr |-> [name \in {"interp", "dynstr", "dynamic"} |->
                      [sh_offset |-> offs[At(name)], sh_size |-> Len(secs[name])]]]

SerIdle == [class |-> "ELF64", endianness |-> "Little", val |-> W(0), op |-> "idle", out |-> None]

\* the input files: [ehdr, bytes, shdr]
InputFiles ==
    {[ehdr |-> eh] @@ MakeFile(layout, [interp |-> InterpBytes(isz),
                                        dynstr |-> strs,
                                        dynamic |-> DynamicBytes(tbl, eh)]) :
        eh \in EhdrPool, strs \in DynstrImages, tbl \in DynTables,
        isz \in 1..MaxInterpSize, layout \in Layouts}

Init ==
    \E f \in InputFiles, rp \in RunpathOpts :
      \E ip \in InterpOpts(f.shdr.interp.sh_size) :
        /\ disk = f.bytes
        /\ orig = f.bytes
        /\ ehdr = f.ehdr
        /\ shdr = f.shdr
        /\ opts = [set_runpath |-> rp, set_interpreter |-> ip]
        /\ elf_raw = f.bytes
        /\ patches = <<>>
        /\ pc = "set_runpath"
        /\ result = "none"
        /\ writes = 0
        /\ ser = SerIdle

-----------------------------------------------------------------------------
(* patchelfdd.rs: run *)

Fail(e) == result' = e /\ pc' = "done"

\* a run that writes the run path's patches to the file as soon as they are planned
SetRunpathWriteThrough ==
    /\ pc = "set_runpath"
    /\ IF ~opts.set_runpath.some
       THEN pc' = "set_interpreter" /\ UNCHANGED <<patches, result, disk, writes>>
       ELSE LET has == has_dt_runpath(elf_raw, shdr, ehdr)
                r == set_runpath(patches, elf_raw, shdr, ehdr, opts.set_runpath.val)
            IN  IF ~has.ok THEN Fail(has.err) /\ UNCHANGED <<patches, disk, writes>>
                ELSE IF has.val
                THEN Fail("RunpathAlreadySet") /\ UNCHANGED <<patches, disk, writes>>
                ELSE /\ patches' = r.patches
                     /\ disk' = apply_patches_to(r.patches, disk)
                     /\ writes' = writes + 1
                     /\ IF r.res.ok
                        THEN pc' = "set_interpreter" /\ UNCHANGED result
                        ELSE Fail(r.res.err)
    /\ UNCHANGED <<orig, ehdr, shdr, opts, elf_raw, ser>>

\* if let Some(runpath) = opts.set_runpath { has_dt_runpath ...; patcher.set_runpath ... }
SetRunpath ==
    /\ pc = "set_runpath"
    /\ IF ~opts.set_runpath.some
       THEN pc' = "set_interpreter" /\ UNCHANGED <<patches, result>>
       ELSE LET has == has_dt_runpath(elf_raw, shdr, ehdr)
                r == set_runpath(patches, elf_raw, shdr, ehdr, opts.set_runpath.val)
            IN  IF ~has.ok THEN Fail(has.err) /\ UNCHANGED patches
                ELSE IF has.val THEN Fail("RunpathAlreadySet") /\ UNCHANGED patches
                ELSE /\ patches' = r.patches
                     /\ IF r.res.ok
                        THEN pc' = "set_interpreter" /\ UNCHANGED result
                        ELSE Fail(r.res.err)
    /\ UNCHANGED <<disk, orig, ehdr, shdr, opts, elf_raw, writes, ser>>

\* if let Some(interpreter_path) = opts.set_interpreter { patcher.set_interpreter_path ... }
SetInterpreter ==
    /\ pc = "set_interpreter"
    /\ IF ~opts.set_interpreter.some
       THEN pc' = "apply" /\ UNCHANGED <<patches, result>>
       ELSE LET r == set_interpreter_path(shdr, opts.set_interpreter.val)
            IN  IF r.ok
                THEN /\ patches' = Append(patches, r.val)
                     /\ pc' = "apply"
                     /\ UNCHANGED result
                ELSE Fail(r.err) /\ UNCHANGED patches
    /\ UNCHANGED <<disk, orig, ehdr, shdr, opts, elf_raw, writes, ser>>

\* if patcher.is_empty() { "Nothing to do" } else { patcher.apply_patches_to(elf_raw) }
ApplyPatches ==
    /\ pc = "apply"
    /\ IF patches = <<>>
       THEN Fail("Ok") /\ UNCHANGED elf_raw
       ELSE /\ elf_raw' = apply_patches_to(patches, elf_raw)
            /\ pc' = "write"
            /\ UNCHANGED result
    /\ UNCHANGED <<disk, orig, ehdr, shdr, opts, patches, writes, ser>>

\* fs::write(opts.bin, &elf_raw)
WriteElf ==
    /\ pc = "write"
    /\ disk' = elf_raw
    /\ writes' = writes + 1
    /\ result' = "Ok"
    /\ pc' = "done"
    /\ UNCHANGED <<orig, ehdr, shdr, opts, elf_raw, patches, ser>>

Next == SetRunpath \/ SetInterpreter \/ ApplyPatches \/ WriteElf

Spec == Init /\ [][Next]_vars

-----------------------------------------------------------------------------
(* serialize.rs exercised on its own: one call of the serializer per behaviour *)

\* mag + d for a small d of either sign; None when the sum leaves 0 .. 2^64 - 1
RECURSIVE AddSmall(_, _, _)
AddSmall(mag, i, d) ==
    IF i > 4 THEN (IF d = 0 THEN Some(mag) ELSE None)
    ELSE LET sum == mag[i] + d
         IN  AddSmall([mag EXCEPT ![i] = sum % Limb], i + 1,
                      IF sum < 0 THEN -1 ELSE sum \div Limb)

\* 0, 2^31, 2^32, 2^63 and 2^64 - 1
SerPoints ==
    {<<0, 0, 0, 0>>, <<0, Half, 0, 0>>, <<0, 0, 1, 0>>, <<0, 0, 0, Half>>,
     <<Limb - 1, Limb - 1, Limb - 1, Limb - 1>>}

SerMags ==
    {m.val : m \in {a \in {AddSmall(p, 1, d) : p \in SerPoints,
                                              d \in (-MaxDelta)..MaxDelta} : a.some}}
        \cup {W(1234).mag, W(1259272).mag}

SerValues ==
    {w \in [neg : BOOLEAN, mag : SerMags] : ~(w.neg /\ w.mag = <<0, 0, 0, 0>>)}

SerInit ==
    /\ disk = <<>>
    /\ orig = <<>>
    /\ ehdr = [class |-> "ELF64", endianness |-> "Little"]
    /\ shdr = [name \in {"interp", "dynstr", "dynamic"} |->
                  [sh_offset |-> 0, sh_size |-> 0]]
    /\ opts = [set_runpath |-> None, set_interpreter |-> None]
    /\ elf_raw = <<>>
    /\ patches = <<>>
    /\ pc = "done"
    /\ result = "none"
    /\ writes = 0
    /\ \E c \in Class, e \in Endian, v \in SerValues :
           ser = [class |-> c, endianness |-> e, val |-> v, op |-> "new", out |-> None]

\* serializer.bytes_from_signed_long(val) for a val: i64
EncodeSigned ==
    /\ ser.op = "new"
    /\ InI64(ser.val)
    /\ ser' = [ser EXCEPT
                 !.op = "signed",
                 !.out = bytes_from_signed_long(ser.class, ser.endianness, ser.val)]
    /\ UNCHANGED <<disk, orig, ehdr, shdr, opts, elf_raw, patches, pc, result, writes>>

\* serializer.bytes_from_unsigned_long(val) for a val: u64
EncodeUnsigned ==
    /\ ser.op = "new"
    /\ InU64(ser.val)
    /\ ser' = [ser EXCEPT
                 !.op = "unsigned",
                 !.out = bytes_from_unsigned_long(ser.class, ser.endianness, ser.val)]
    /\ UNCHANGED <<disk, orig, ehdr, shdr, opts, elf_raw, patches, pc, result, writes>>

SerNext == EncodeSigned \/ EncodeUnsigned

SerSpec == SerInit /\ [][SerNext]_vars

-----------------------------------------------------------------------------
(* Claims about run (checked under Spec) *)

SectionOf(bytes, sh) == Slice(bytes, sh.sh_offset, sh.sh_size)

\* the input's .dynstr entries, as [index, entry]
OrigStrings == DynstrScan(SectionOf(orig, shdr.dynstr), 1, <<>>)

OrigDynamic == DynamicEntries(SectionOf(orig, shdr.dynamic), ehdr)

OrigHasRunpath == \E i \in 1..Len(OrigDynamic) : OrigDynamic[i].d_tag = W(DT_RUNPATH)

DynstrHas(needle) ==
    \E i \in 1..Len(OrigStrings.val) : Contains(OrigStrings.val[i].entry, needle)

\* the spec's dynstr overwrite candidate: recognized name, long enough, safe
Qualifies(e) ==
    /\ e.entry \in {ITM_NAME, GMON_NAME}
    /\ Len(e.entry) >= Len(opts.set_runpath.val)
    /\ e.entry = ITM_NAME => ~DynstrHas(LIBITM)
    /\ e.entry = GMON_NAME => ~DynstrHas(MCOUNT)

QualifiedNames ==
    {OrigStrings.val[i].entry : i \in {j \in 1..Len(OrigStrings.val) :
                                          Qualifies(OrigStrings.val[j])}}

\* set_runpath was called, and what it did
RunpathCalled ==
    opts.set_runpath.some /\ pc # "set_runpath" /\ result # "RunpathAlreadySet"
VictimChosen == RunpathCalled /\ Len(patches) >= 1
VictimOffset == patches[1].offset - shdr.dynstr.sh_offset
RunpathSucceeded ==
    RunpathCalled /\ result \in {"none", "Ok", "CannotFitInterpreterPath"}

\* set_interpreter_path was called, and what it did
InterpCalled ==
    /\ opts.set_interpreter.some
    /\ pc \in {"apply", "write"} \/ result \in {"Ok", "CannotFitInterpreterPath"}
InterpSucceeded == InterpCalled /\ result # "CannotFitInterpreterPath"
InterpFits == Len(opts.set_interpreter.val) + 1 <= shdr.interp.sh_size
PatchesBefore == IF opts.set_runpath.some THEN 2 ELSE 0

\* C1: set_interpreter succeeds, appending exactly one patch of len(new_path)+1
\* bytes at sh_offset(.interp), if and only if len(new_path)+1 <= sh_size(.interp);
\* otherwise it fails with CannotFitInterpreter and appends no patch.
C1_InterpreterFitsIff ==
    InterpCalled
        => /\ InterpSucceeded <=> InterpFits
           /\ InterpSucceeded
                 => /\ Len(patches) = PatchesBefore + 1
                    /\ patches[Len(patches)].offset = shdr.interp.sh_offset
                    /\ Len(patches[Len(patches)].data) = Len(opts.set_interpreter.val) + 1
           /\ ~InterpSucceeded
                 => result = "CannotFitInterpreterPath" /\ Len(patches) = PatchesBefore

\* C2: when an _ITM_deregisterTMCloneTable entry and a __gmon_start__ entry are
\* both eligible, the victim is the _ITM_deregisterTMCloneTable entry, whatever
\* their order in .dynstr.
C2_PriorityTable ==
    (VictimChosen /\ OrigStrings.ok /\ QualifiedNames = {ITM_NAME, GMON_NAME})
        => StrtabGet(SectionOf(orig, shdr.dynstr), VictimOffset) = Ok(ITM_NAME)

\* the re-parse of a patched file: exactly one DT_RUNPATH entry, whose d_val is a
\* .dynstr offset where the NUL-terminated new run path starts
RunpathReadsBack(bytes) ==
    LET entries == DynamicEntries(SectionOf(bytes, shdr.dynamic), ehdr)
        found == {i \in 1..Len(entries) : entries[i].d_tag = W(DT_RUNPATH)}
        strtab == SectionOf(bytes, shdr.dynstr)
    IN  /\ Cardinality(found) = 1
        /\ \A i \in found :
               \E off \in 0..(shdr.dynstr.sh_size - 1) :
                   /\ entries[i].d_val = W(off)
                   /\ StrtabGet(strtab, off) = Ok(opts.set_runpath.val)

\* C3: when set_runpath has succeeded and its patches have been applied, the
\* resulting file reads back with exactly one DT_RUNPATH entry, whose d_val is
\* the .dynstr offset of a NUL-terminated string equal to new_path.
C3_RunpathReadsBack ==
    (result = "Ok" /\ RunpathSucceeded) => RunpathReadsBack(disk)

\* What does hold: the patches of set_runpath on their own read back, and so
\* does every written file whose interpreter patch, if any, fits .interp.
RunpathAloneReadsBack ==
    /\ (pc = "set_interpreter" /\ RunpathSucceeded)
          => RunpathReadsBack(apply_patches_to(patches, elf_raw))
    /\ (result = "Ok" /\ RunpathSucceeded
            /\ (opts.set_interpreter.some => InterpFits))
          => RunpathReadsBack(disk)

\* C4: when .dynamic already holds a DT_RUNPATH entry, at any index, a requested
\* run path fails with RunpathAlreadySet, no patch is emitted and nothing is
\* written.
C4_RunpathAlreadySet ==
    (opts.set_runpath.some /\ pc # "set_runpath" /\ OrigHasRunpath)
        => /\ result = "RunpathAlreadySet"
           /\ patches = <<>>
           /\ disk = orig
           /\ writes = 0

\* the refused file has its DT_RUNPATH entry after the first DT_NULL
C4_Witness ==
    /\ result = "RunpathAlreadySet"
    /\ Len(OrigDynamic) >= 2
    /\ OrigDynamic[1].d_tag = W(DT_NULL)
    /\ OrigDynamic[Len(OrigDynamic)].d_tag = W(DT_RUNPATH)

\* C5: the victim is one of the entries that match a recognized name, are long
\* enough and satisfy the name's safety precondition; when no entry qualifies,
\* set_runpath fails with NoDynstrReplacementCandidate and the file is unchanged.
C5_VictimQualifies ==
    (RunpathCalled /\ OrigStrings.ok)
        => /\ VictimChosen
                 => \E i \in 1..Len(OrigStrings.val) :
                        /\ OrigStrings.val[i].index = VictimOffset
                        /\ Qualifies(OrigStrings.val[i])
           /\ QualifiedNames = {}
                 => result = "NoDynstrReplacementCandidate" /\ disk = orig

\* C6: in a successful run every patch ends inside the file, so neither the
\* patched buffer nor the written file is longer than the input.
C6_LengthPreserved ==
    (result = "Ok" \/ pc = "write")
        => /\ \A i \in 1..Len(patches) :
                  patches[i].offset + Len(patches[i].data) <= Len(orig)
           /\ Len(elf_raw) = Len(orig)
           /\ Len(disk) = Len(orig)

Range(sh) == sh.sh_offset..(sh.sh_offset + sh.sh_size - 1)
PatchRange(p) == p.offset..(p.offset + Len(p.data) - 1)

SectionsDisjoint ==
    /\ Range(shdr.interp) \cap Range(shdr.dynstr) = {}
    /\ Range(shdr.interp) \cap Range(shdr.dynamic) = {}
    /\ Range(shdr.dynstr) \cap Range(shdr.dynamic) = {}

\* the section the i-th patch was planned for
PatchSection(i) ==
    IF opts.set_runpath.some /\ i = 1 THEN shdr.dynstr
    ELSE IF opts.set_runpath.some /\ i = 2 THEN shdr.dynamic
    ELSE shdr.interp

\* C7: with pairwise disjoint sections, the patches of an accepted request are
\* pairwise non-overlapping and each lies inside its own section.
C7_PatchesDisjoint ==
    (SectionsDisjoint /\ (pc \in {"apply", "write"} \/ result = "Ok"))
        => /\ \A i, j \in 1..Len(patches) :
                  i # j => PatchRange(patches[i]) \cap PatchRange(patches[j]) = {}
           /\ \A i \in 1..Len(patches) :
                  PatchRange(patches[i]) \subseteq Range(PatchSection(i))

\* C8: whenever run returns an error, also after set_runpath has succeeded,
\* the file has not been written and is byte-identical to the input.
C8_NoWriteOnError ==
    /\ result \notin {"none", "Ok"} => (disk = orig /\ writes = 0)
    /\ pc # "done" => (disk = orig /\ writes = 0)

\* set_interpreter has failed after set_runpath had planned its two patches
C8_Witness ==
    /\ result = "CannotFitInterpreterPath"
    /\ opts.set_runpath.some
    /\ Len(patches) = 2
    /\ disk = orig

\* phase (a) of set_runpath has succeeded: its .dynstr patch is in the list
PhaseBReached == VictimChosen
\* set_runpath has returned Ok: both of its patches are in the list
RunpathPlanned == RunpathCalled /\ Len(patches) >= 2
\* indexes from 0, as in the source
NullIndexes == {i \in 0..(Len(OrigDynamic) - 1) : OrigDynamic[i + 1].d_tag = W(DT_NULL)}
ReferrerIndexes ==
    {j \in 0..(Len(OrigDynamic) - 1) : OrigDynamic[j + 1].d_val = W(VictimOffset)}
Least(S) == CHOOSE m \in S : \A x \in S : m <= x
EntryWidth == IF ehdr.class = "ELF32" THEN 8 ELSE 16
SlotOffset(slot) == shdr.dynamic.sh_offset + slot * EntryWidth

TerminatorKept(bytes) ==
    LET entries == DynamicEntries(SectionOf(bytes, shdr.dynamic), ehdr)
        slot == (patches[2].offset - shdr.dynamic.sh_offset) \div EntryWidth
    IN  \E i \in 1..Len(entries) : i - 1 > slot /\ entries[i].d_tag = W(DT_NULL)

\* C12: for a table that contains a DT_NULL entry, once a successful set_runpath
\* is applied the table still has a DT_NULL entry at an index greater than that of
\* the newly written DT_RUNPATH entry.
C12_TerminatorKept ==
    (RunpathPlanned /\ NullIndexes # {})
        => /\ pc = "set_interpreter" => TerminatorKept(apply_patches_to(patches, elf_raw))
           /\ pc = "write" => TerminatorKept(elf_raw)
           /\ result = "Ok" => TerminatorKept(disk)

\* the applier has run on a non-empty patch list
Applied == patches # <<>> /\ (pc = "write" \/ result = "Ok")

\* C13: the applier writes the patches in ascending file-offset order, whatever
\* the order in which the planner appended them (patches with equal offsets in
\* insertion order).
C13_WritesAscending ==
    Applied
        => LET written == apply_patches_writes(patches, <<>>)
           IN  \A i, j \in 1..Len(written) : i < j => written[i] <= written[j]

\* C14: whenever set_runpath returns an error the patch list is what it was
\* before the call, that is empty: a failure of phase (b) does not leave the
\* .dynstr overwrite of phase (a) in the list.
C14_FailureLeavesNoPatch ==
    (RunpathCalled /\ ~RunpathSucceeded) => patches = <<>>

-----------------------------------------------------------------------------
(* Claims about the serializer (checked under SerSpec) *)

\* the values of i32 and of u32
InI32Range(w) ==
    /\ w.mag[3] = 0 /\ w.mag[4] = 0
    /\ \/ w.mag[2] < Half
       \/ w.neg /\ w.mag = <<0, Half, 0, 0>>
InU32Range(w) == ~w.neg /\ w.mag[3] = 0 /\ w.mag[4] = 0

InWidthRange(c, op, w) ==
    c = "ELF64" \/ (IF op = "signed" THEN InI32Range(w) ELSE InU32Range(w))

SerDecode(op, bytes, endianness) ==
    IF op = "signed" THEN decode_signed(bytes, endianness)
    ELSE decode_unsigned(bytes, endianness)

SerKnownVector(c, e, op, w, bytes) ==
    (ser.class = c /\ ser.endianness = e /\ ser.op = op /\ ser.val = w)
        => (ser.out.ok /\ ser.out.val = bytes)

\* C9: for every class and byte order and every value in range of the class's
\* width, the signed and the unsigned encoding have 4 (ELF32) or 8 (ELF64) bytes
\* and decoding them with the same width, signedness and byte order gives the
\* value back; the four known vectors are produced.
C9_EncodeDecodeRoundTrip ==
    /\ (ser.op \in {"signed", "unsigned"} /\ InWidthRange(ser.class, ser.op, ser.val))
          => /\ ser.out.ok
             /\ Len(ser.out.val) = (IF ser.class = "ELF32" THEN 4 ELSE 8)
             /\ SerDecode(ser.op, ser.out.val, ser.endianness) = ser.val
    /\ SerKnownVector("ELF32", "Little", "signed", WNeg(W(1234)), <<46, 251, 255, 255>>)
    /\ SerKnownVector("ELF32", "Big", "signed", WNeg(W(1234)), <<255, 255, 251, 46>>)
    /\ SerKnownVector("ELF64", "Little", "unsigned", W(1259272),
                      <<8, 55, 19, 0, 0, 0, 0, 0>>)
    /\ SerKnownVector("ELF64", "Big", "unsigned", W(1259272),
                      <<0, 0, 0, 0, 0, 19, 55, 8>>)

\* a negative value has been encoded big-endian in 8 bytes and read back
C9_Witness ==
    /\ ser.op = "signed" /\ ser.class = "ELF64" /\ ser.endianness = "Big"
    /\ ser.val = WNeg(W(1259272))
    /\ ser.out.ok
    /\ ser.out.val = <<255, 255, 255, 255, 255, 236, 200, 248>>

\* C10: on ELF32 the signed encoding fails with IntConversion exactly when the
\* value is outside i32 and the unsigned one exactly when it is outside u32;
\* on ELF64 both succeed for every i64 / u64.
C10_NarrowingChecked ==
    ser.op \in {"signed", "unsigned"}
        => /\ ser.out.ok <=> InWidthRange(ser.class, ser.op, ser.val)
           /\ ~ser.out.ok => ser.out = Err("IntConversion")

\* 2^31 has been refused as a signed word on ELF32
C10_Witness ==
    /\ ser.op = "signed" /\ ser.class = "ELF32"
    /\ ser.val = [neg |-> FALSE, mag |-> <<0, Half, 0, 0>>]
    /\ ser.out = Err("IntConversion")

=============================================================================
